---- MODULE Spec2Model ----
(***************************************************************************)
(* Model of watersheds/ws_anisotropic_distance_transform.py:               *)
(*   signed_anisotropic_dt, anisotropic_seeds and                          *)
(*   ws_anisotropic_distance_transform (shape check, stages, the per-slice *)
(*   growth and label stitching loop).                                     *)
(*                                                                         *)
(* Numbers.  The label volume is a numpy uint32 array and the running      *)
(* offset is a Python integer.  TLC's integers are 32 bit signed, so a     *)
(* number n >= 0 is the pair <<n \div 2^16, n % 2^16>>; a uint32 has its   *)
(* first component below 2^16, a Python integer may have it larger.        *)
(*                                                                         *)
(* The library calls (vigra, wsdt) are not part of the file.  The growth   *)
(* step iterative_inplace_watershed is a deterministic function of its     *)
(* inputs whose value the model draws once per slice: the max label it     *)
(* returns and the label it leaves at a voxel of the slice.  The stitching *)
(* statements act on every voxel of a slice alike, so the model follows    *)
(* one arbitrary voxel per slice.                                          *)
(***************************************************************************)
EXTENDS Integers, Sequences, FiniteSets, TLC

\* ------------------------------------------------------------------ bounds
MaxExtent == 3
MaxCount == 2

\* ------------------------------------------------------------------ numbers
Base == 2^16
Zero == <<0, 0>>
One == <<0, 1>>
MaxU32 == <<Base - 1, Base - 1>>

Carry(h, l) == <<h + (l \div Base), l % Base>>
Small(n) == Carry(0, n)
Plus(a, b) == Carry(a[1] + b[1], a[2] + b[2])
Wrap(a) == <<a[1] % Base, a[2]>>
Less(a, b) == a[1] < b[1] \/ (a[1] = b[1] /\ a[2] < b[2])
Leq(a, b) == a = b \/ Less(a, b)
FitsU32(a) == a[1] < Base

\* ------------------------------------------------------------------ inputs
Extents == (1..MaxExtent) \cup {Base}
Dims == {2, 3, 4}
Anisotropies == {1, 2}
Sigmas == {1, 2}
SigmaWeights == {0, 1, 2}
Shapes == UNION {[1..d -> Extents] : d \in Dims}

VARIABLES
    pc, shape, anisotropy, sigma_seeds, castWraps,
    computed, gaussScale, hmap, z, offset, seeds, grown, error, returned,
    parPc, parSeeds, parGrown, prefix, parApplied, parCount,
    dtPc, pmap, threshold, pitch, preserve, field

pipeVars == <<pc, shape, anisotropy, sigma_seeds, castWraps,
              computed, gaussScale, hmap, z, offset, seeds, grown, error, returned>>
parVars == <<parPc, parSeeds, parGrown, prefix, parApplied, parCount>>
dtVars == <<dtPc, pmap, threshold, pitch, preserve, field>>
vars == <<pipeVars, parVars, dtVars>>

Slices == 0..(shape[1] - 1)

\* ------------------------------------------------------------ shape check
ValidShapeLoose(s) == Len(s) = 3 /\ s[1] <= s[2] /\ s[1] <= s[3]
ValidShape(s) == Len(s) = 3 /\ s[1] < s[2] /\ s[1] < s[3]

\* ------------------------------------------------------------ growth step
\* number of voxels of one z-slice
SliceVoxels ==
    IF shape[2] = Base THEN <<shape[3], 0>>
    ELSE IF shape[3] = Base THEN <<shape[2], 0>>
    ELSE Small(shape[2] * shape[3])

\* the labels of a slice are uint32 and no more numerous than its voxels
CountChoices ==
    {m \in {Small(n) : n \in 0..MaxCount} \cup {MaxU32} : Leq(m, SliceVoxels)}
LabelChoices(m) == {l \in {Zero, One, m} : Leq(l, m)}
GrowOutcomes ==
    UNION {{[max |-> m, lab |-> l] : l \in LabelChoices(m)} : m \in CountChoices}

\* ------------------------------------------------------------ stitching
Decrement(l) == Wrap(Carry(l[1], l[2] - 1))
AddOffset(l, off) == Wrap(Plus(l, off))

StitchSliceEarlyAdvance(l, off, m) ==
    [label |-> AddOffset(Decrement(l), Plus(off, m)), offset |-> Plus(off, m)]
StitchSliceNoDecrement(l, off, m) ==
    [label |-> AddOffset(l, off), offset |-> Plus(off, m)]
StitchSliceKeepOffset(l, off, m) ==
    [label |-> AddOffset(Decrement(l), off), offset |-> off]
StitchSlice(l, off, m) ==
    [label |-> AddOffset(Decrement(l), off), offset |-> Plus(off, m)]

\* ------------------------------------------------------------ pipeline
NoPar ==
    /\ parPc = "off" /\ parSeeds = <<>> /\ parGrown = {}
    /\ prefix = <<>> /\ parApplied = {} /\ parCount = Zero
NoDT ==
    /\ dtPc = "off" /\ pmap = <<>> /\ threshold = 0
    /\ pitch = 0 /\ preserve = FALSE /\ field = <<>>

Init ==
    /\ pc = "entry"
    /\ shape \in Shapes
    /\ anisotropy \in Anisotropies
    /\ sigma_seeds \in Sigmas
    /\ castWraps \in BOOLEAN
    /\ computed = {}
    /\ gaussScale = <<>>
    /\ hmap = "none"
    /\ z = 0
    /\ offset = Zero
    /\ seeds = <<>>
    /\ grown = <<>>
    /\ error = "none"
    /\ returned = FALSE
    /\ NoPar
    /\ NoDT

CheckShape ==
    /\ pc = "entry"
    /\ IF ValidShape(shape)
       THEN pc' = "dt" /\ error' = error
       ELSE pc' = "failed" /\ error' = "AssertionError"
    /\ UNCHANGED <<shape, anisotropy, sigma_seeds, castWraps, computed, gaussScale,
                   hmap, z, offset, seeds, grown, returned>>
    /\ UNCHANGED <<parVars, dtVars>>

\* line 98: the field feeds only the library calls that follow; its values are
\* modelled by DistanceToMembrane, PreserveMembranePmaps and CombineInnerOuter
SignedDT ==
    /\ pc = "dt"
    /\ pc' = "seeds"
    /\ computed' = computed \cup {"distance_to_membrane"}
    /\ UNCHANGED <<shape, anisotropy, sigma_seeds, castWraps, gaussScale,
                   hmap, z, offset, seeds, grown, error, returned>>
    /\ UNCHANGED <<parVars, dtVars>>

\* the per-axis scale given to gaussianSmoothing, each a fraction <<num, den>>
SeedScale(a, s) == << <<1, a>>, <<1, 1>>, <<1, 1>> >>

AnisotropicSeeds ==
    /\ pc = "seeds"
    /\ pc' = "hmap"
    /\ gaussScale' = SeedScale(anisotropy, sigma_seeds)
    /\ computed' = computed \cup {"seeds"}
    /\ UNCHANGED <<shape, anisotropy, sigma_seeds, castWraps,
                   hmap, z, offset, seeds, grown, error, returned>>
    /\ UNCHANGED <<parVars, dtVars>>

HeightMap(grow_on_pmap, sigma_weights) ==
    LET h == IF grow_on_pmap THEN "pmap" ELSE "neg_dt"
    IN  IF sigma_weights # 0 THEN "smoothed_" \o h ELSE h

SelectHeightMap ==
    /\ pc = "hmap"
    /\ \E grow_on_pmap \in BOOLEAN, sigma_weights \in SigmaWeights :
           hmap' = HeightMap(grow_on_pmap, sigma_weights)
    /\ computed' = computed \cup {"hmap"}
    /\ offset' = Zero
    /\ z' = 0
    /\ pc' = "loop"
    /\ UNCHANGED <<shape, anisotropy, sigma_seeds, castWraps, gaussScale,
                   seeds, grown, error, returned>>
    /\ UNCHANGED <<parVars, dtVars>>

\* what iterative_inplace_watershed yields for slice k: drawn on first use
\* (the same inputs give the same result to whoever grows the slice again)
Grow(k, o) == IF k \in DOMAIN grown THEN o = grown[k] ELSE o \in GrowOutcomes

\* seeds[z] += offset with an offset of 2^32 or more: numpy either casts the
\* sum back into uint32 (castWraps) or refuses the cast and raises
LoopBody ==
    /\ pc = "loop"
    /\ z < shape[1]
    /\ \E o \in GrowOutcomes :
         /\ Grow(z, o)
         /\ grown' = (z :> o) @@ grown
         /\ IF FitsU32(offset) \/ castWraps
            THEN /\ seeds' = (z :> StitchSlice(o.lab, offset, o.max).label) @@ seeds
                 /\ offset' = StitchSlice(o.lab, offset, o.max).offset
                 /\ z' = z + 1
                 /\ UNCHANGED <<pc, error>>
            ELSE /\ seeds' = (z :> Decrement(o.lab)) @@ seeds
                 /\ pc' = "failed"
                 /\ error' = "CastError"
                 /\ UNCHANGED <<offset, z>>
    /\ UNCHANGED <<shape, anisotropy, sigma_seeds, castWraps, computed, gaussScale,
                   hmap, returned>>
    /\ UNCHANGED <<parVars, dtVars>>

Return ==
    /\ pc = "loop"
    /\ z = shape[1]
    /\ pc' = "done"
    /\ returned' = TRUE
    /\ UNCHANGED <<shape, anisotropy, sigma_seeds, castWraps, computed, gaussScale,
                   hmap, z, offset, seeds, grown, error>>
    /\ UNCHANGED <<parVars, dtVars>>

Next ==
    \/ CheckShape
    \/ SignedDT
    \/ AnisotropicSeeds
    \/ SelectHeightMap
    \/ LoopBody
    \/ Return

Spec == Init /\ [][Next]_vars

\* ------------------------------------------------------------ parallel scheme
\* Growth of all slices in any interleaving, then a prefix sum over the
\* per-slice counts, then the offsets applied in any order.  The scheme runs
\* on the input of a finished serial run, with the same growth results.
RECURSIVE PrefixSum(_, _)
PrefixSum(g, k) == IF k = 0 THEN Zero ELSE Plus(PrefixSum(g, k - 1), g[k - 1].max)

InitPar ==
    /\ pc = "loop"
    /\ shape \in {s \in Shapes : ValidShape(s)}
    /\ anisotropy = 1
    /\ sigma_seeds = 1
    /\ castWraps \in BOOLEAN
    /\ computed = {"distance_to_membrane", "seeds", "hmap"}
    /\ gaussScale = SeedScale(anisotropy, sigma_seeds)
    /\ hmap = "pmap"
    /\ z = 0
    /\ offset = Zero
    /\ seeds = <<>>
    /\ grown = <<>>
    /\ error = "none"
    /\ returned = FALSE
    /\ parPc = "grow"
    /\ parSeeds = <<>>
    /\ parGrown = {}
    /\ prefix = <<>>
    /\ parApplied = {}
    /\ parCount = Zero
    /\ NoDT

SerialEnded == pc \in {"done", "failed"}

ParGrow ==
    /\ SerialEnded
    /\ parPc = "grow"
    /\ \E k \in Slices \ parGrown :
         \E o \in GrowOutcomes :
           /\ Grow(k, o)
           /\ grown' = (k :> o) @@ grown
           /\ parSeeds' = (k :> o.lab) @@ parSeeds
           /\ parGrown' = parGrown \cup {k}
    /\ UNCHANGED <<parPc, prefix, parApplied, parCount>>
    /\ UNCHANGED <<pc, shape, anisotropy, sigma_seeds, castWraps, computed, gaussScale,
                   hmap, z, offset, seeds, error, returned>>
    /\ UNCHANGED dtVars

ParPrefix ==
    /\ SerialEnded
    /\ parPc = "grow"
    /\ parGrown = Slices
    /\ prefix' = [k \in Slices |-> PrefixSum(grown, k)]
    /\ parCount' = PrefixSum(grown, shape[1])
    /\ parPc' = "apply"
    /\ UNCHANGED <<parSeeds, parGrown, parApplied>>
    /\ UNCHANGED <<pipeVars, dtVars>>

ParApply ==
    /\ parPc = "apply"
    /\ \E k \in Slices \ parApplied :
         /\ parApplied' = parApplied \cup {k}
         /\ IF FitsU32(prefix[k]) \/ castWraps
            THEN /\ parSeeds' = [parSeeds EXCEPT ![k] = AddOffset(Decrement(@), prefix[k])]
                 /\ UNCHANGED parPc
            ELSE /\ parSeeds' = [parSeeds EXCEPT ![k] = Decrement(@)]
                 /\ parPc' = "failed"
    /\ UNCHANGED <<parGrown, prefix, parCount>>
    /\ UNCHANGED <<pipeVars, dtVars>>

ParFinish ==
    /\ parPc = "apply"
    /\ parApplied = Slices
    /\ parPc' = "done"
    /\ UNCHANGED <<parSeeds, parGrown, prefix, parApplied, parCount>>
    /\ UNCHANGED <<pipeVars, dtVars>>

NextPar ==
    \/ LoopBody
    \/ Return
    \/ ParGrow
    \/ ParPrefix
    \/ ParApply
    \/ ParFinish

SpecPar == InitPar /\ [][NextPar]_vars

PLevels == 2
Grid == (0..1) \X (0..0) \X (0..1)
GridShape == <<2, 1, 2>>
Thresholds == (0 - 1)..(PLevels + 1)
Pitches == {1, 2, 4}

Min(S) == CHOOSE m \in S : \A n \in S : m <= n
Sq(n) == n * n
\* squared distance between two voxel centres under pixel_pitch [anisotropy, 1, 1]
DistSq4(u, v, p) ==
    Sq(p) * Sq(u[1] - v[1]) + 4 * (Sq(u[2] - v[2]) + Sq(u[3] - v[3]))
\* the value the transform leaves where no voxel of the other class exists
DMax4(p) == Sq(p * GridShape[1]) + 4 * (Sq(GridShape[2]) + Sq(GridShape[3]))
NearestSq4(v, T, p) ==
    IF T = {} THEN DMax4(p) ELSE Min({DistSq4(v, t, p) : t \in T})

Dist(q) == [kind |-> "dist", sq4 |-> q, sign |-> 1, shift |-> 0]
ZeroVal == Dist(0)

\* vigra.filters.distanceTransform on the array whose nonzero voxels are F
distanceTransform(F, background, p) ==
    [v \in Grid |->
        IF background
        THEN IF v \in F THEN ZeroVal ELSE Dist(NearestSq4(v, F, p))
        ELSE IF v \in F THEN Dist(NearestSq4(v, Grid \ F, p)) ELSE ZeroVal]

SignOf(x) ==
    IF x.kind = "prob"
    THEN IF x.num > 0 THEN 1 ELSE IF x.num < 0 THEN 0 - 1 ELSE 0
    ELSE LET root == IF x.sq4 > 0 THEN x.sign ELSE 0
             \* sqrt(q)/2 against 1
             cmp == IF x.sq4 > 4 THEN 1 ELSE IF x.sq4 < 4 THEN 0 - 1 ELSE 0
         IN  IF x.shift = 0 THEN root
             ELSE IF x.shift * x.sign > 0 THEN x.shift
             ELSE x.sign * cmp

\* x[x > 0] -= 1
MinusOneWherePositive(x) ==
    IF SignOf(x) > 0 THEN [x EXCEPT !.shift = @ - 1] ELSE x
Negate(x) ==
    IF x.kind = "prob" THEN [x EXCEPT !.num = 0 - @]
    ELSE IF x.sq4 = 0 /\ x.shift = 0 THEN x
    ELSE [x EXCEPT !.sign = 0 - @, !.shift = 0 - @]
\* a - b where one of the two is 0, as it is at every voxel here
Minus(a, b) == IF b = ZeroVal THEN a ELSE Negate(b)

binary_membranes == {v \in Grid : pmap[v] >= threshold}

InitDT ==
    /\ dtPc = "start"
    /\ pmap \in [Grid -> 0..PLevels]
    /\ threshold \in Thresholds
    /\ pitch \in Pitches
    /\ preserve \in BOOLEAN
    /\ field = <<>>
    /\ pc = "off" /\ shape = <<>> /\ anisotropy = 0 /\ sigma_seeds = 0
    /\ castWraps = FALSE /\ computed = {} /\ gaussScale = <<>> /\ hmap = "none"
    /\ z = 0 /\ offset = Zero /\ seeds = <<>> /\ grown = <<>>
    /\ error = "none" /\ returned = FALSE
    /\ NoPar

DistanceToMembrane ==
    /\ dtPc = "start"
    /\ field' = distanceTransform(binary_membranes, TRUE, pitch)
    /\ dtPc' = "branch"
    /\ UNCHANGED <<pmap, threshold, pitch, preserve>>
    /\ UNCHANGED <<pipeVars, parVars>>

PreserveMembranePmaps ==
    /\ dtPc = "branch"
    /\ preserve
    /\ field' = [v \in Grid |->
                    IF v \in binary_membranes
                    THEN [kind |-> "prob", num |-> 0 - pmap[v]]
                    ELSE field[v]]
    /\ dtPc' = "done"
    /\ UNCHANGED <<pmap, threshold, pitch, preserve>>
    /\ UNCHANGED <<pipeVars, parVars>>

CombineInnerOuter ==
    /\ dtPc = "branch"
    /\ ~preserve
    /\ LET distance_to_nonmembrane == distanceTransform(binary_membranes, FALSE, pitch)
       IN  field' = [v \in Grid |->
                        Minus(field[v], MinusOneWherePositive(distance_to_nonmembrane[v]))]
    /\ dtPc' = "done"
    /\ UNCHANGED <<pmap, threshold, pitch, preserve>>
    /\ UNCHANGED <<pipeVars, parVars>>

NextDT ==
    \/ DistanceToMembrane
    \/ PreserveMembranePmaps
    \/ CombineInnerOuter

SpecDT == InitDT /\ [][NextDT]_vars

\* C7: the returned field is strictly positive at every voxel outside the
\* mask (pmap < threshold) and at most 0 at every voxel inside it.
SignInvariant ==
    dtPc = "done" =>
        \A v \in Grid :
            /\ pmap[v] < threshold => SignOf(field[v]) = 1
            /\ pmap[v] >= threshold => SignOf(field[v]) <= 0

\* the same for a z pitch of at least one in-plane pixel (anisotropy >= 1)
SignInvariantCoarseZ == pitch >= 2 => SignInvariant

\* ------------------------------------------------------------ properties
\* the running offset before slice k: the counts of the slices before it
RECURSIVE OffsetAt(_)
OffsetAt(k) == IF k = 0 THEN Zero ELSE Plus(OffsetAt(k - 1), grown[k - 1].max)

\* slices whose labels were shifted by the stitcher
Stitched == {k \in DOMAIN seeds : k < z}
Labelled(k) == Less(Zero, grown[k].lab)
\* l - 1 + offset_k as an unbounded integer (l >= 1)
TrueLabel(k) == Carry(grown[k].lab[1] + OffsetAt(k)[1],
                      grown[k].lab[2] - 1 + OffsetAt(k)[2])

\* C1: after all slices are stitched, voxels labelled by growth in two distinct
\* slices never carry the same final label.
LabelsUniqueAcrossSlices ==
    pc = "done" =>
        \A i \in Stitched, j \in Stitched :
            (i # j /\ Labelled(i) /\ Labelled(j)) => seeds[i] # seeds[j]

\* C2: the returned count is the sum of the per-slice max labels; the offset
\* starts at 0 and is advanced once per slice, after the slice was shifted
\* (slice k is shifted by the sum of the counts of slices 0..k-1).
TotalSegmentCount ==
    /\ pc \in {"loop", "done"} => offset = OffsetAt(z)
    /\ pc = "done" => z = shape[1] /\ DOMAIN grown = Slices
    /\ pc \in {"loop", "done"} =>
           \A k \in Stitched : Labelled(k) => seeds[k] = Wrap(TrueLabel(k))
TotalSegmentCountWitness ==
    /\ pc = "done" /\ returned
    /\ shape[1] = 2
    /\ grown[0].max = Small(2) /\ grown[1].max = Small(1)
    /\ offset = Small(3)

\* C3 as stated: in the returned volume no voxel that growth assigned to a
\* segment has the value 0.
ZeroIsReserved ==
    pc = "done" => \A k \in Stitched : Labelled(k) => seeds[k] # Zero

\* C3 amended: the final labels are 0-based.  A voxel with slice-local label
\* l >= 1 in slice k has final value 0 exactly when l = 1 and the offset of
\* slice k is 0, or when l - 1 + offset is a positive multiple of 2^32.
ZeroIsFirstLabel ==
    pc = "done" =>
        \A k \in Stitched :
            Labelled(k) =>
                (seeds[k] = Zero <=>
                    \/ grown[k].lab = One /\ OffsetAt(k) = Zero
                    \/ /\ TrueLabel(k)[2] = 0
                       /\ TrueLabel(k)[1] > 0
                       /\ TrueLabel(k)[1] % Base = 0)
ZeroIsFirstLabelWitness ==
    /\ pc = "done"
    /\ 0 \in Stitched
    /\ grown[0].lab = One
    /\ seeds[0] = Zero

\* C5: an input that is not 3-dimensional, or whose z-extent is not strictly
\* smaller than both other extents, fails with an assertion before any stage
\* is computed and never returns.
InvalidShapeFailsFast ==
    (Len(shape) # 3 \/ shape[1] >= shape[2] \/ shape[1] >= shape[3]) =>
        /\ pc \in {"entry", "failed"}
        /\ pc = "failed" => error = "AssertionError"
        /\ computed = {}
        /\ ~returned
InvalidShapeFailsFastWitness ==
    /\ Len(shape) = 3
    /\ shape[1] = shape[2]
    /\ shape[1] < shape[3]
    /\ pc = "failed"
    /\ error = "AssertionError"

\* C6: when the cumulative segment count does not fit the label width the
\* pipeline returns no labels and fails with "label space exhausted".
LabelSpaceExhaustedReported ==
    /\ pc = "done" => FitsU32(offset)
    /\ (pc = "failed" /\ ~FitsU32(offset)) => error = "LabelSpaceExhausted"

\* C8: the scale handed to the Gaussian smoothing of the seed extractor is
\* sigma_seeds * (1 / anisotropy, 1, 1).
FracEq(p, q) == p[1] * q[2] = q[1] * p[2]
SeedScaleUsesSigma ==
    gaussScale # <<>> =>
        /\ FracEq(gaussScale[1], <<sigma_seeds, anisotropy>>)
        /\ FracEq(gaussScale[2], <<sigma_seeds, 1>>)
        /\ FracEq(gaussScale[3], <<sigma_seeds, 1>>)

\* C10: label - 1 + offset never wraps: a voxel that growth left at 0 does not
\* end up with (offset - 1) mod 2^32.
DecrementNeverWraps ==
    \A k \in Stitched :
        grown[k].lab = Zero =>
            seeds[k] # Wrap(Carry(OffsetAt(k)[1], OffsetAt(k)[2] - 1))

====
